---------------------------- MODULE Spec2Model ----------------------------
(***************************************************************************)
(* Terminology-controlled translation (tc_translate).                      *)
(*                                                                         *)
(* A text is a sequence of one-character strings.  A Term is a record      *)
(* [id, term, translation]; a term table is the sequence of the Terms of   *)
(* one (domain, language) dict in insertion order (Python dicts keep it,   *)
(* and sorted() is stable, so the order decides which of two equally long  *)
(* terms is substituted first).                                            *)
(***************************************************************************)
EXTENDS Integers, Sequences, FiniteSets, TLC

VARIABLES
    disk,                  \* terminologies_dir: pair -> rows of its CSV file
    terms_by_domain_lang,  \* Translator.terminology_manager.terms_by_domain_lang
    domains_languages,     \* Translator.terminology_manager.domains_languages
    pc,                    \* "idle", or the external call that is in flight
    req,                   \* the arguments of the translate call being served
    tc,                    \* the TCTranslator built for it: its manager and step 1
    calls,                 \* what the current translate call has done, in order
    last,                  \* the last finished call, its arguments and what it gave
    nAdds                  \* add_terminology calls made so far

vars == <<disk, terms_by_domain_lang, domains_languages, pc, req, tc, calls,
          last, nAdds>>

(***************************************************************************)
(* Characters                                                              *)
(***************************************************************************)
LowerLetters ==
    <<"a","b","c","d","e","f","g","h","i","j","k","l","m",
      "n","o","p","q","r","s","t","u","v","w","x","y","z">>

UpperLetters ==
    <<"A","B","C","D","E","F","G","H","I","J","K","L","M",
      "N","O","P","Q","R","S","T","U","V","W","X","Y","Z">>

DigitChars == <<"0","1","2","3","4","5","6","7","8","9">>

Range(s) == {s[i] : i \in DOMAIN s}

Letters == Range(LowerLetters) \cup Range(UpperLetters)

WordChars == Letters \cup Range(DigitChars) \cup {"_"}

\* \w of a str pattern, on ASCII
IsWordChar(c) == c \in WordChars

IsSpace(c) == c = " "

LowerOf ==
    [c \in Range(UpperLetters) |->
        LowerLetters[CHOOSE i \in DOMAIN UpperLetters : UpperLetters[i] = c]]

\* str.lower(), one character
LowerChar(c) == IF c \in DOMAIN LowerOf THEN LowerOf[c] ELSE c

\* str.lower()
LowerStr(s) == [i \in DOMAIN s |-> LowerChar(s[i])]

RECURSIVE LStrip(_)
LStrip(s) == IF s # <<>> /\ IsSpace(Head(s)) THEN LStrip(Tail(s)) ELSE s

RECURSIVE RStrip(_)
RStrip(s) ==
    IF s # <<>> /\ IsSpace(s[Len(s)]) THEN RStrip(SubSeq(s, 1, Len(s) - 1)) ELSE s

\* str.strip()
Strip(s) == RStrip(LStrip(s))

\* str(n) of a non-negative int
RECURSIVE ToStr(_)
ToStr(n) ==
    IF n < 10 THEN <<DigitChars[n + 1]>>
    ELSE ToStr(n \div 10) \o <<DigitChars[(n % 10) + 1]>>

\* f"<{term_obj.id}>"
Placeholder(id) == <<"<">> \o ToStr(id) \o <<">">>

(***************************************************************************)
(* The pattern \b + re.escape(term) + \b under re.IGNORECASE               *)
(***************************************************************************)
\* \b at the gap before s[p] (p = Len(s) + 1: the end of the text)
Boundary(s, p) ==
    LET left  == p > 1 /\ IsWordChar(s[p - 1])
        right == p <= Len(s) /\ IsWordChar(s[p])
    IN  left # right

\* the escaped term, letter case ignored, at s[p .. p + Len(term) - 1]
LiteralAt(term, s, p) ==
    /\ p >= 1
    /\ p + Len(term) - 1 <= Len(s)
    /\ \A k \in 1..Len(term) : LowerChar(s[p + k - 1]) = LowerChar(term[k])

MatchAt(term, s, p) ==
    /\ LiteralAt(term, s, p)
    /\ Boundary(s, p)
    /\ Boundary(s, p + Len(term))

\* pattern.sub: the matches it replaces, leftmost first, never overlapping
RECURSIVE MatchesFrom(_, _, _)
MatchesFrom(term, s, p) ==
    IF p > Len(s) + 1 THEN {}
    ELSE IF MatchAt(term, s, p)
         THEN {p} \cup MatchesFrom(term, s, p + (IF Len(term) = 0 THEN 1 ELSE Len(term)))
         ELSE MatchesFrom(term, s, p + 1)

Matches(term, s) == MatchesFrom(term, s, 1)

\* pattern.sub(replace_with_placeholder, text): the rewritten text
RECURSIVE SubFrom(_, _, _, _)
SubFrom(term, ph, s, p) ==
    IF p > Len(s) + 1 THEN <<>>
    ELSE IF MatchAt(term, s, p)
         THEN IF Len(term) > 0
              THEN ph \o SubFrom(term, ph, s, p + Len(term))
              ELSE ph \o (IF p <= Len(s) THEN <<s[p]>> ELSE <<>>)
                      \o SubFrom(term, ph, s, p + 1)
         ELSE (IF p <= Len(s) THEN <<s[p]>> ELSE <<>>) \o SubFrom(term, ph, s, p + 1)

Sub(term, ph, s) == SubFrom(term, ph, s, 1)


(***************************************************************************)
(* Dicts in insertion order: a sequence of records with distinct keys      *)
(***************************************************************************)
\* terms_dict[term.term] = term: a new key goes last, a known key keeps its place
TermsPut(table, t) ==
    IF \E i \in DOMAIN table : table[i].term = t.term
    THEN [i \in DOMAIN table |-> IF table[i].term = t.term THEN t ELSE table[i]]
    ELSE Append(table, t)

\* replacements[placeholder] = term_obj
ReplPut(repl, ph, t) ==
    IF \E i \in DOMAIN repl : repl[i].placeholder = ph
    THEN [i \in DOMAIN repl |->
            IF repl[i].placeholder = ph THEN [placeholder |-> ph, term |-> t]
            ELSE repl[i]]
    ELSE Append(repl, [placeholder |-> ph, term |-> t])

MaxOf(S) == CHOOSE m \in S : \A x \in S : x <= m

(***************************************************************************)
(* TerminologyManager.preprocess_text                                      *)
(***************************************************************************)
\* sorted(terms_dict.values(), key=lambda x: len(x.term), reverse=True):
\* stable, so equally long terms keep their dict order
RECURSIVE SortFromLen(_, _)
SortFromLen(table, n) ==
    IF n < 0 THEN <<>>
    ELSE SelectSeq(table, LAMBDA t : Len(t.term) = n) \o SortFromLen(table, n - 1)

\* the same without reverse=True: shortest term first
RECURSIVE SortUpToLen(_, _, _)
SortUpToLen(table, n, max) ==
    IF n > max THEN <<>>
    ELSE SelectSeq(table, LAMBDA t : Len(t.term) = n) \o SortUpToLen(table, n + 1, max)

SortedShortestFirst(table) ==
    IF table = <<>> THEN <<>>
    ELSE SortUpToLen(table, 0, MaxOf({Len(table[i].term) : i \in DOMAIN table}))

SortedTerms(table) ==
    IF table = <<>> THEN <<>>
    ELSE SortFromLen(table, MaxOf({Len(table[i].term) : i \in DOMAIN table}))

\* one turn of the loop over sorted_terms: the substitution of one term
SubstituteTerm(term_obj, state) ==
    LET ph == Placeholder(term_obj.id)
    IN  [text         |-> Sub(term_obj.term, ph, state.text),
         replacements |-> IF Matches(term_obj.term, state.text) # {}
                          THEN ReplPut(state.replacements, ph, term_obj)
                          ELSE state.replacements]

\* the state after the first n turns of the loop
RECURSIVE AfterPasses(_, _, _)
AfterPasses(sorted, text, n) ==
    IF n = 0 THEN [text |-> text, replacements |-> <<>>]
    ELSE SubstituteTerm(sorted[n], AfterPasses(sorted, text, n - 1))

\* self.terms_by_domain_lang.get((domain, language), {})
GetTermsForDomainLang(tbdl, domain, language) ==
    IF <<domain, language>> \in DOMAIN tbdl THEN tbdl[<<domain, language>>] ELSE <<>>

\* "if not terms_dict: raise ValueError"
NoTerminology(terms_dict) == terms_dict = <<>>

PreprocessText(tbdl, text, domain, language) ==
    LET terms_dict == GetTermsForDomainLang(tbdl, domain, language)
        sorted     == SortedTerms(terms_dict)
        final      == AfterPasses(sorted, text, Len(sorted))
    IN  IF NoTerminology(terms_dict)
        THEN [raised |-> TRUE, text |-> <<>>, replacements |-> <<>>]
        ELSE [raised |-> FALSE, text |-> final.text,
              replacements |-> final.replacements]

(***************************************************************************)
(* TerminologyManager.postprocess_text                                     *)
(***************************************************************************)
PlainAt(pat, s, p) ==
    /\ p + Len(pat) - 1 <= Len(s)
    /\ \A k \in 1..Len(pat) : s[p + k - 1] = pat[k]

\* str.replace(old, new), old not empty
RECURSIVE ReplaceFrom(_, _, _, _)
ReplaceFrom(s, old, new, p) ==
    IF p > Len(s) THEN <<>>
    ELSE IF PlainAt(old, s, p)
         THEN new \o ReplaceFrom(s, old, new, p + Len(old))
         ELSE <<s[p]>> \o ReplaceFrom(s, old, new, p + 1)

StrReplace(s, old, new) == ReplaceFrom(s, old, new, 1)

RECURSIVE PostprocessFrom(_, _, _)
PostprocessFrom(text, repl, i) ==
    IF i > Len(repl) THEN text
    ELSE PostprocessFrom(
             StrReplace(text, repl[i].placeholder, repl[i].term.translation),
             repl, i + 1)

PostprocessText(text, repl) == PostprocessFrom(text, repl, 1)

(***************************************************************************)
(* TerminologyManager._load_terminologies and add_terminology              *)
(***************************************************************************)
\* the rows of one file, into terms_dict
RECURSIVE LoadRows(_, _)
LoadRows(rows, n) ==
    IF n = 0 THEN <<>>
    ELSE TermsPut(LoadRows(rows, n - 1),
                  [id          |-> rows[n].id,
                   term        |-> Strip(LowerStr(rows[n].term)),
                   translation |-> rows[n].translation])

\* every file matching {domain}_terms_{language}.csv
LoadTerminologies(dir) ==
    [tbdl |-> [key \in DOMAIN dir |-> LoadRows(dir[key], Len(dir[key]))],
     dl   |-> DOMAIN dir]

\* max([t.id for t in ...values()] or [0])
CurrentMaxId(table) ==
    IF table = <<>> THEN 0 ELSE MaxOf({table[i].id : i \in DOMAIN table})

\* the same with enumerate(terms_data) counting from 0
NewTermIdFromZero(current_max_id, i) == current_max_id + i - 1

\* the id of the i-th entry of terms_data
NewTermId(current_max_id, i) == current_max_id + i

RECURSIVE AddEntries(_, _, _, _)
AddEntries(table, terms_data, current_max_id, n) ==
    IF n = 0 THEN table
    ELSE TermsPut(AddEntries(table, terms_data, current_max_id, n - 1),
                  [id          |-> NewTermId(current_max_id, n),
                   term        |-> Strip(LowerStr(terms_data[n].term)),
                   translation |-> terms_data[n].translation])

\* the manager after add_terminology(domain, language, terms_data)
AddTerminology(tbdl, dl, domain, language, terms_data) ==
    LET key    == <<domain, language>>
        absent == key \notin DOMAIN tbdl
        before == IF absent THEN <<>> ELSE tbdl[key]
        after  == AddEntries(before, terms_data, CurrentMaxId(before), Len(terms_data))
    IN  [tbdl |-> [k \in DOMAIN tbdl \cup {key} |-> IF k = key THEN after ELSE tbdl[k]],
         dl   |-> IF absent THEN dl \cup {key} ELSE dl]

(***************************************************************************)
(* Strings used as inputs, written out as character sequences              *)
(***************************************************************************)
S_cocoa == <<"c","o","c","o","a">>

S_cocoa_pod == <<"c","o","c","o","a"," ","p","o","d">>

S_cat == <<"c","a","t">>

S_seven == <<"7">>

S_cpp == <<"c","+","+">>

S_maize == <<"m","a","i","z","e">>

S_kookoo == <<"k","o","o","k","o","o">>

S_kookoo_aba == <<"k","o","o","k","o","o"," ","a","b","a">>

S_ose == <<"o","s","e">>

S_aburo == <<"a","b","u","r","o">>

S_ason == <<"a","s","o","n">>

S_Cocoa_padded == <<" ","C","o","c","o","a"," ">>

S_Maize_padded == <<"M","a","i","z","e"," ">>

X_grow_cocoa == <<"I"," ","g","r","o","w"," ","c","o","c","o","a">>

X_grow_Cocoa == <<"I"," ","g","r","o","w"," ","C","o","c","o","a">>

X_grow_cocoa_pod_here == <<"I"," ","g","r","o","w"," ","c","o","c","o","a"," ","p","o","d"," ","h","e","r","e">>

X_category_theory == <<"c","a","t","e","g","o","r","y"," ","t","h","e","o","r","y">>

X_cocoa_7 == <<"c","o","c","o","a"," ","7">>

X_cpp_x == <<"c","+","+","x">>

X_use_cpp_now == <<"u","s","e"," ","c","+","+"," ","n","o","w">>

X_cocoa_and_maize == <<"c","o","c","o","a",","," ","m","a","i","z","e">>

X_hello == <<"h","e","l","l","o">>

X_grow_7 == <<"I"," ","g","r","o","w"," ","<","7",">">>

X_grow_kookoo == <<"I"," ","g","r","o","w"," ","k","o","o","k","o","o">>

(***************************************************************************)
(* Translator.translate and TCTranslator                                   *)
(***************************************************************************)
\* domain=None
None == "<None>"

\* "if domain:"
HasDomain(domain) == domain # None /\ domain # ""

\* the same with the check left out
PairNeverChecked(dl, domain, target_lang) == TRUE

\* "if (domain, target_lang) not in available"
PairAvailable(dl, domain, target_lang) == <<domain, target_lang>> \in dl

Call(op, text, args) == [op |-> op, text |-> text, args |-> args]

\* the dict TCTranslator.translate returns
TCResult(final_text, src, dest, domain, text, preprocessed_text, google_text, repl) ==
    [text               |-> final_text,
     src                |-> src,
     dest               |-> dest,
     domain             |-> domain,
     original           |-> text,
     preprocessed       |-> preprocessed_text,
     google_translation |-> google_text,
     replacements_count |-> Len(repl)]

\* the dict Translator.translate returns when no domain is given
PlainResult(google_text, src, dest, text) ==
    [text |-> google_text, src |-> src, dest |-> dest, original |-> text]

\* the same, handing over the preprocessed text whether or not there is a domain
GoogleInputPreprocessed(text, domain, preprocessed_text) == preprocessed_text

\* what is handed to google_translator.translate
GoogleInput(text, domain, preprocessed_text) ==
    IF HasDomain(domain) THEN preprocessed_text ELSE text

\* the external engine returns any text: here its input, its input without the
\* angle brackets, or an unrelated text
GoogleOutputs(text) ==
    {text, SelectSeq(text, LAMBDA c : c \notin {"<", ">"}), S_ason}

NoReq == [text |-> <<>>, src |-> "", dest |-> "", domain |-> None]

NoTC == [preprocessed_text |-> <<>>, replacements |-> <<>>]

NoCall == [kind |-> "none"]

(***************************************************************************)
(* Inputs                                                                  *)
(***************************************************************************)
MaxAdds == 2

MaxTextLen == 5

Row(id, term, translation) == [id |-> id, term |-> term, translation |-> translation]

Agric_twi == <<"agric", "twi">>

DirEmpty == [key \in {} |-> <<>>]

DirScenario == [key \in {Agric_twi} |-> <<Row(7, S_cocoa, S_kookoo)>>]

DirHeaderOnly == [key \in {Agric_twi} |-> <<>>]

DirPadded ==
    [key \in {Agric_twi} |->
        <<Row(1, S_Cocoa_padded, S_kookoo), Row(2, S_cocoa_pod, S_kookoo_aba)>>]

Dirs == {DirEmpty, DirScenario, DirHeaderOnly, DirPadded}

Languages == {"twi", "fr"}

SysTexts == {X_grow_cocoa, X_cocoa_and_maize, X_hello}

Entry(term, translation) == [term |-> term, translation |-> translation]

TermsData ==
    { <<>>,
      <<Entry(S_Maize_padded, S_aburo)>>,
      <<Entry(S_cocoa, S_kookoo), Entry(S_maize, S_aburo)>>,
      <<Entry(S_maize, S_aburo), Entry(S_Maize_padded, S_ason)>> }

(***************************************************************************)
(* The operations                                                          *)
(***************************************************************************)
Init ==
    /\ disk \in Dirs
    /\ terms_by_domain_lang = LoadTerminologies(disk).tbdl
    /\ domains_languages = LoadTerminologies(disk).dl
    /\ pc = "idle"
    /\ req = NoReq
    /\ tc = NoTC
    /\ calls = <<>>
    /\ last = NoCall
    /\ nAdds = 0

\* Translator.terminology_manager.add_terminology(domain, language, terms_data)
AddTerminologyCall(domain, language, terms_data) ==
    /\ pc = "idle"
    /\ nAdds < MaxAdds
    /\ LET m == AddTerminology(terms_by_domain_lang, domains_languages,
                               domain, language, terms_data)
       IN  /\ terms_by_domain_lang' = m.tbdl
           /\ domains_languages' = m.dl
    /\ last' = [kind       |-> "add",
                domain     |-> domain,
                language   |-> language,
                terms_data |-> terms_data,
                absent     |-> <<domain, language>> \notin DOMAIN terms_by_domain_lang,
                before     |-> GetTermsForDomainLang(terms_by_domain_lang, domain, language)]
    /\ nAdds' = nAdds + 1
    /\ UNCHANGED <<disk, pc, req, tc, calls>>

\* Translator.terminology_manager.preprocess_text(text, domain, language)
PreprocessCall(text, domain, language) ==
    /\ pc = "idle"
    /\ last' = [kind     |-> "preprocess",
                text     |-> text,
                domain   |-> domain,
                language |-> language,
                present  |-> <<domain, language>> \in DOMAIN terms_by_domain_lang,
                table    |-> GetTermsForDomainLang(terms_by_domain_lang, domain, language),
                result   |-> PreprocessText(terms_by_domain_lang, text, domain, language)]
    /\ UNCHANGED <<disk, terms_by_domain_lang, domains_languages, pc, req, tc,
                   calls, nAdds>>

Raised(r, error, done) ==
    [kind |-> "translate", req |-> r, raised |-> error, calls |-> done,
     google_text |-> <<>>, result |-> <<>>]

Returned(r, done, google_text, result) ==
    [kind |-> "translate", req |-> r, raised |-> "", calls |-> done,
     google_text |-> google_text, result |-> result]

\* Translator.translate(text, src, dest, domain), up to the call of the engine.
\* With a domain it builds a TCTranslator, whose TerminologyManager is loaded
\* from terminologies_dir, and runs TCTranslator.translate on it.
TranslateCall(text, src, dest, domain) ==
    LET r   == [text |-> text, src |-> src, dest |-> dest, domain |-> domain]
        mgr == LoadTerminologies(disk)
        pre == PreprocessText(mgr.tbdl, text, domain, dest)
        did == <<Call("preprocess", text, <<domain, dest>>)>>
        go  == Call("google", GoogleInput(text, domain, pre.text), <<src, dest>>)
    IN  /\ pc = "idle"
        /\ IF HasDomain(domain) /\ ~PairAvailable(mgr.dl, domain, dest)
           THEN /\ last' = Raised(r, "NotSupported", <<>>)
                /\ UNCHANGED <<pc, req, tc, calls>>
           ELSE IF HasDomain(domain) /\ pre.raised
           THEN /\ last' = Raised(r, "NoTerminology", did)
                /\ UNCHANGED <<pc, req, tc, calls>>
           ELSE /\ pc' = "google"
                /\ req' = r
                /\ tc' = IF HasDomain(domain)
                         THEN [preprocessed_text |-> pre.text,
                               replacements      |-> pre.replacements]
                         ELSE NoTC
                /\ calls' = IF HasDomain(domain) THEN did \o <<go>> ELSE <<go>>
                /\ last' = NoCall
        /\ UNCHANGED <<disk, terms_by_domain_lang, domains_languages, nAdds>>

\* what Translator.translate returns once the engine has returned google_text
Completed(google_text) ==
    IF HasDomain(req.domain)
    THEN Returned(req,
                  Append(calls, Call("postprocess", google_text, <<>>)),
                  google_text,
                  TCResult(PostprocessText(google_text, tc.replacements),
                           req.src, req.dest, req.domain, req.text,
                           tc.preprocessed_text, google_text, tc.replacements))
    ELSE Returned(req, calls, google_text,
                  PlainResult(google_text, req.src, req.dest, req.text))

\* the engine returns: step 3 and the returned dict
GoogleReturn ==
    /\ pc = "google"
    /\ \E google_text \in GoogleOutputs(calls[Len(calls)].text) :
          last' = Completed(google_text)
    /\ pc' = "idle"
    /\ req' = NoReq
    /\ tc' = NoTC
    /\ calls' = <<>>
    /\ UNCHANGED <<disk, terms_by_domain_lang, domains_languages, nAdds>>

\* the engine raises: "except Exception ... raise" hands the error to the caller
GoogleRaise ==
    /\ pc = "google"
    /\ last' = Raised(req, "Google", calls)
    /\ pc' = "idle"
    /\ req' = NoReq
    /\ tc' = NoTC
    /\ calls' = <<>>
    /\ UNCHANGED <<disk, terms_by_domain_lang, domains_languages, nAdds>>

Next ==
    \/ \E language \in Languages, terms_data \in TermsData :
          AddTerminologyCall("agric", language, terms_data)
    \/ \E text \in SysTexts, language \in Languages :
          PreprocessCall(text, "agric", language)
    \/ \E text \in SysTexts, dest \in Languages, domain \in {None, "", "agric"} :
          TranslateCall(text, "en", dest, domain)
    \/ GoogleReturn
    \/ GoogleRaise

Spec == Init /\ [][Next]_vars

(***************************************************************************)
(* preprocess_text on its own: a manager loaded from one term file, and    *)
(* one call of preprocess_text per text                                    *)
(***************************************************************************)
GenChars == {"a", "b", " ", "1"}

GenTexts == UNION {[1..n -> GenChars] : n \in 0..MaxTextLen}

GenSurfaces ==
    { <<"a">>, <<"b">>, <<"1">>, <<"a","b">>,
      <<"a"," ","b">>, <<"b"," ","a">>, <<"a"," ","1">> }

GenTranslation == <<S_ose, S_aburo>>

GenTables ==
    {<<Row(i, s, GenTranslation[i])>> : i \in {1, 2}, s \in GenSurfaces}
    \cup
    {<<Row(i, st[1], GenTranslation[i]), Row(3 - i, st[2], GenTranslation[3 - i])>> :
        i \in {1, 2}, st \in {x \in GenSurfaces \X GenSurfaces : x[1] # x[2]}}

TableCocoa == <<Row(7, S_cocoa, S_kookoo)>>

TableCocoaPod == <<Row(1, S_cocoa, S_kookoo), Row(2, S_cocoa_pod, S_kookoo_aba)>>

TableCat == <<Row(3, S_cat, S_ose)>>

TableSeven == <<Row(7, S_cocoa, S_kookoo), Row(1, S_seven, S_ason)>>

TableCpp == <<Row(12, S_cpp, S_ason)>>

PreTables ==
    GenTables \cup {TableCocoa, TableCocoaPod, TableCat, TableSeven, TableCpp}

PreTexts ==
    GenTexts \cup
    { X_grow_cocoa, X_grow_Cocoa, X_grow_cocoa_pod_here, X_category_theory,
      X_cocoa_7, X_cpp_x, X_use_cpp_now }

InitPre ==
    /\ disk \in {[key \in {Agric_twi} |-> rows] : rows \in PreTables}
    /\ terms_by_domain_lang = LoadTerminologies(disk).tbdl
    /\ domains_languages = LoadTerminologies(disk).dl
    /\ pc = "idle"
    /\ req = NoReq
    /\ tc = NoTC
    /\ calls = <<>>
    /\ last = NoCall
    /\ nAdds = 0

NextPre ==
    /\ last = NoCall
    /\ \E text \in PreTexts : PreprocessCall(text, "agric", "twi")

SpecPre == InitPre /\ [][NextPre]_vars

(***************************************************************************)
(* What the properties below speak of                                      *)
(***************************************************************************)
\* a preprocess_text call has returned
PreDone == last.kind = "preprocess" /\ ~last.result.raised

\* the text the n-th turn of its loop gave
Work(n) == AfterPasses(SortedTerms(last.table), last.text, n).text

Contains(s, pat) == \E p \in 1..Len(s) : PlainAt(pat, s, p)

CountOcc(s, pat) == Cardinality({p \in 1..Len(s) : PlainAt(pat, s, p)})

\* every place where the term stands in s, letter case ignored, with no word
\* character next to it
WholeWordOcc(term, s) ==
    {p \in 1..Len(s) :
        /\ LiteralAt(term, s, p)
        /\ ~(p > 1 /\ IsWordChar(s[p - 1]))
        /\ ~(p + Len(term) <= Len(s) /\ IsWordChar(s[p + Len(term)]))}

Overlap(p, n, q, m) == p < q + m /\ q < p + n

(***************************************************************************)
(* C2.  Longest match                                                      *)
(***************************************************************************)
\* short stands inside long as a whole word
SubPhrase(short, long) == short # long /\ WholeWordOcc(short, long) # {}

\* C2: when the table holds a term and a longer term that contains it as a
\* whole word, every occurrence of the longer term in the text is replaced by
\* the longer term's placeholder, which the returned text then holds once per
\* occurrence; "I grow cocoa pod here" becomes "I grow <2> here".
C2_LongestMatch ==
    PreDone =>
        /\ \A i, j \in DOMAIN last.table :
              SubPhrase(last.table[i].term, last.table[j].term) =>
                  CountOcc(last.result.text, Placeholder(last.table[j].id))
                      >= Cardinality(WholeWordOcc(last.table[j].term, last.text))
        /\ (last.table = TableCocoaPod /\ last.text = X_grow_cocoa_pod_here) =>
              last.result.text =
                  <<"I"," ","g","r","o","w"," ","<","2",">"," ","h","e","r","e">>

(***************************************************************************)
(* C3.  Word boundary                                                      *)
(***************************************************************************)
\* C3: a turn of the loop replaces an occurrence of its term only where the
\* occurrence has no word character right before it and none right after
\* it; the table {cat} leaves "category theory" as it is, with an empty
\* mapping.
C3_WordBoundary ==
    PreDone =>
        /\ \A n \in 1..Len(last.table) :
              LET term == SortedTerms(last.table)[n].term
                  w    == Work(n - 1)
              IN  \A p \in Matches(term, w) :
                      /\ ~(p > 1 /\ IsWordChar(w[p - 1]))
                      /\ ~(p + Len(term) <= Len(w) /\ IsWordChar(w[p + Len(term)]))
        /\ (last.table = TableCat /\ last.text = X_category_theory) =>
              /\ last.result.text = X_category_theory
              /\ last.result.replacements = <<>>

(***************************************************************************)
(* C4.  Term protection                                                    *)
(***************************************************************************)
\* the mapping has exactly one entry for the term, under its placeholder
OneEntryFor(repl, t) ==
    /\ Cardinality({i \in DOMAIN repl : repl[i].term.id = t.id}) = 1
    /\ \A i \in DOMAIN repl :
          repl[i].term.id = t.id =>
              repl[i].placeholder = Placeholder(t.id) /\ repl[i].term = t

PlainSurface(term) ==
    /\ term # <<>>
    /\ \A i \in DOMAIN term : term[i] \in Letters \cup {" "}
    /\ term[1] \in Letters
    /\ term[Len(term)] \in Letters

PlainTable(table) ==
    /\ \A i \in DOMAIN table : PlainSurface(table[i].term)
    /\ \A i, j \in DOMAIN table : table[i].id = table[j].id => i = j

\* the term table[j] is substituted before table[k]
Earlier(table, j, k) ==
    \/ Len(table[j].term) > Len(table[k].term)
    \/ Len(table[j].term) = Len(table[k].term) /\ j < k

\* the occurrence of table[k] at p shares a character with an occurrence of a
\* term that is substituted before it
Shadowed(table, text, k, p) ==
    \E j \in DOMAIN table :
        /\ Earlier(table, j, k)
        /\ \E q \in WholeWordOcc(table[j].term, text) :
              Overlap(p, Len(table[k].term), q, Len(table[j].term))

\* the case of C4: a plain table, a term of it standing exactly once in the
\* text, at a place no earlier term's occurrence touches
ProtectedCase(k) ==
    /\ PlainTable(last.table)
    /\ Cardinality(WholeWordOcc(last.table[k].term, last.text)) = 1
    /\ \A p \in WholeWordOcc(last.table[k].term, last.text) :
          ~Shadowed(last.table, last.text, k, p)

C9_PlaceholdersIntact ==
    PreDone =>
        \A n \in 1..Len(last.table) :
            LET t == SortedTerms(last.table)[n]
            IN  Matches(t.term, Work(n - 1)) # {} =>
                    Contains(last.result.text, Placeholder(t.id))

\* preprocess_text on the tables whose terms are made of letters and spaces
InitPlain == InitPre /\ PlainTable(disk[Agric_twi])

SpecPlain == InitPlain /\ [][NextPre]_vars

(***************************************************************************)
(* C1.  The three steps of a terminology-controlled translation            *)
(***************************************************************************)
GoogleCalls(done) == {i \in DOMAIN done : done[i].op = "google"}

\* C1: a translate call with a domain whose (domain, dest) pair the
\* translator's manager knows calls the engine exactly once, after
\* preprocess and before postprocess, on the text preprocess returned; the
\* result's text is postprocess of the engine's output under the mapping of
\* that call, 'preprocessed' is the rewritten text, 'google_translation' the
\* engine's output and 'original' the input ("I grow cocoa", with the term
\* 7: cocoa -> kookoo and an engine that echoes, gives "I grow <7>",
\* "I grow <7>" and "I grow kookoo").
C1_ThreeSteps ==
    (/\ last.kind = "translate"
     /\ HasDomain(last.req.domain)
     /\ <<last.req.domain, last.req.dest>> \in LoadTerminologies(disk).dl) =>
        LET pre == PreprocessText(LoadTerminologies(disk).tbdl, last.req.text,
                                  last.req.domain, last.req.dest)
        IN  /\ Cardinality(GoogleCalls(last.calls)) = 1
            /\ Len(last.calls) >= 2
            /\ last.calls[1].op = "preprocess"
            /\ last.calls[2] = Call("google", pre.text, <<last.req.src, last.req.dest>>)
            /\ last.raised = "" =>
                  /\ Len(last.calls) = 3
                  /\ last.calls[3].op = "postprocess"
                  /\ last.result.text =
                        PostprocessText(last.google_text, pre.replacements)
                  /\ last.result.preprocessed = pre.text
                  /\ last.result.google_translation = last.google_text
                  /\ last.result.original = last.req.text
                  /\ (/\ disk = DirScenario
                      /\ last.req.text = X_grow_cocoa
                      /\ last.google_text = pre.text) =>
                         /\ last.result.preprocessed = X_grow_7
                         /\ last.result.google_translation = X_grow_7
                         /\ last.result.text = X_grow_kookoo

(***************************************************************************)
(* C5.  When preprocess fails                                              *)
(***************************************************************************)
\* C5: preprocess fails exactly when the manager has no table for (domain,
\* language); on a table that is there but empty it returns the text as it
\* is, with an empty mapping.
C5_FailsOnlyWhenAbsent ==
    last.kind = "preprocess" =>
        /\ last.result.raised <=> ~last.present
        /\ (last.present /\ last.table = <<>>) =>
              /\ ~last.result.raised
              /\ last.result.text = last.text
              /\ last.result.replacements = <<>>

(***************************************************************************)
(* C6.  Unsupported pair                                                   *)
(***************************************************************************)
\* C6: a translate call with a domain whose (domain, dest) is not an
\* available pair raises the not-supported error, and the engine is not
\* called for it.
C6_UnsupportedPair ==
    /\ (/\ last.kind = "translate"
        /\ HasDomain(last.req.domain)
        /\ <<last.req.domain, last.req.dest>> \notin domains_languages) =>
           /\ last.raised = "NotSupported"
           /\ GoogleCalls(last.calls) = {}
    /\ (pc = "google" /\ HasDomain(req.domain)) =>
           <<req.domain, req.dest>> \in domains_languages

C6_Witness ==
    /\ last.kind = "translate"
    /\ last.req.domain = "agric"
    /\ last.req.dest = "fr"
    /\ <<"agric", "fr">> \notin domains_languages
    /\ <<"agric", "twi">> \in domains_languages
    /\ last.raised = "NotSupported"

(***************************************************************************)
(* C7.  No domain                                                          *)
(***************************************************************************)
\* C7: a translate call without a domain calls the engine exactly once, on
\* the text as given and (src, dest), does no preprocess and no postprocess,
\* and returns the engine's output as 'text' in a result that carries no
\* domain, no preprocessed text and no replacement count.
C7_Passthrough ==
    /\ (last.kind = "translate" /\ ~HasDomain(last.req.domain)) =>
           /\ last.calls =
                 <<Call("google", last.req.text, <<last.req.src, last.req.dest>>)>>
           /\ last.raised \in {"", "Google"}
           /\ last.raised = "" =>
                 /\ last.result.text = last.google_text
                 /\ last.result.original = last.req.text
                 /\ DOMAIN last.result = {"text", "src", "dest", "original"}
    /\ (pc = "google" /\ ~HasDomain(req.domain)) =>
           calls = <<Call("google", req.text, <<req.src, req.dest>>)>>

C7_Witness ==
    /\ last.kind = "translate"
    /\ last.req.domain = None
    /\ last.req.text = X_grow_cocoa
    /\ <<"agric", last.req.dest>> \in domains_languages
    /\ last.raised = ""
    /\ last.result.text = S_ason

(***************************************************************************)
(* C8.  Id assignment                                                      *)
(***************************************************************************)
\* the largest id of a table, 0 for an empty one
MaxIdBefore(table) ==
    IF table = <<>> THEN 0
    ELSE CHOOSE m \in {table[i].id : i \in DOMAIN table} :
            \A i \in DOMAIN table : table[i].id <= m

\* the key terms_data[k] is stored under
KeyOf(entry) == Strip(LowerStr(entry.term))

\* C8: add_terminology gives the k-th entry the id (largest id of the table
\* before the call, 0 if none) + k, so 1, 2, ..., n on an empty or absent
\* bucket, and the bucket exists and is an available pair afterwards.  (Of
\* entries with the same key the table keeps the last.)
C8_IdAssignment ==
    last.kind = "add" =>
        LET key   == <<last.domain, last.language>>
            data  == last.terms_data
            base  == MaxIdBefore(last.before)
        IN  /\ key \in domains_languages
            /\ key \in DOMAIN terms_by_domain_lang
            /\ (last.absent => last.before = <<>>)
            /\ \A k \in DOMAIN data :
                  (\A k2 \in DOMAIN data : KeyOf(data[k2]) = KeyOf(data[k]) => k2 <= k) =>
                      \E i \in DOMAIN terms_by_domain_lang[key] :
                          terms_by_domain_lang[key][i] =
                              [id          |-> base + k,
                               term        |-> KeyOf(data[k]),
                               translation |-> data[k].translation]
            /\ (last.before = <<>>
                  /\ \A k, k2 \in DOMAIN data : KeyOf(data[k]) = KeyOf(data[k2]) => k = k2) =>
                  /\ Len(terms_by_domain_lang[key]) = Len(data)
                  /\ \A k \in DOMAIN data : terms_by_domain_lang[key][k].id = k

\* two entries added to a table whose largest id was 7, after two entries
\* added to a pair that had no bucket
C8_Witness ==
    /\ last.kind = "add"
    /\ Len(last.terms_data) = 2
    /\ MaxIdBefore(last.before) = 7
    /\ \E i \in DOMAIN terms_by_domain_lang[Agric_twi] :
          terms_by_domain_lang[Agric_twi][i].id = 9
    /\ \E language \in Languages :
          /\ <<"agric", language>> \notin DOMAIN disk
          /\ <<"agric", language>> \in domains_languages
          /\ Len(terms_by_domain_lang[<<"agric", language>>]) = 2
          /\ terms_by_domain_lang[<<"agric", language>>][2].id = 2

(***************************************************************************)
(* C10.  translate and the store add_terminology changes                   *)
(***************************************************************************)
\* C10: translate with a domain takes (domain, dest) for a known pair exactly
\* when the pair is among the available pairs of the translator's manager at
\* that time, and preprocesses with that manager's table as it then is.
C10_SameStore ==
    (last.kind = "translate" /\ HasDomain(last.req.domain)) =>
        /\ last.raised = "NotSupported" <=>
              <<last.req.domain, last.req.dest>> \notin domains_languages
        /\ last.raised = "" =>
              last.result.preprocessed =
                  PreprocessText(terms_by_domain_lang, last.req.text,
                                 last.req.domain, last.req.dest).text

(***************************************************************************)
(* postprocess_text on its own: one call on a translated text and a        *)
(* mapping whose keys are the placeholders of distinct ids                 *)
(***************************************************************************)
MaxPostLen == 4

PostChars == {"<", ">", "1", "2", "a"}

S_two == <<"2">>

S_open == <<"<">>

X_nested == <<"<", "<", "1", ">", ">">>

PostTexts == UNION {[1..n -> PostChars] : n \in 0..MaxPostLen} \cup {X_nested}

PostIds == {1, 2, 12}

PostTranslations == {S_ose, S_two, S_open, Placeholder(2)}

\* replacements[f"<{term_obj.id}>"] = term_obj, for one Term
PostItem(id, translation) ==
    [placeholder |-> Placeholder(id), term |-> Row(id, S_cat, translation)]

\* the mappings of at most two Terms, in each insertion order
PostMappings ==
    {<<>>}
    \cup {<<PostItem(i, t)>> : i \in PostIds, t \in PostTranslations}
    \cup {<<PostItem(ij[1], tu[1]), PostItem(ij[2], tu[2])>> :
            ij \in {x \in PostIds \X PostIds : x[1] # x[2]},
            tu \in PostTranslations \X PostTranslations}

InitPost ==
    /\ disk = DirScenario
    /\ terms_by_domain_lang = LoadTerminologies(disk).tbdl
    /\ domains_languages = LoadTerminologies(disk).dl
    /\ pc = "idle"
    /\ req = NoReq
    /\ tc = NoTC
    /\ calls = <<>>
    /\ last = NoCall
    /\ nAdds = 0

\* Translator.terminology_manager.postprocess_text(text, replacements)
PostprocessCall(text, replacements) ==
    /\ pc = "idle"
    /\ last' = [kind         |-> "postprocess",
                text         |-> text,
                replacements |-> replacements,
                result       |-> PostprocessText(text, replacements)]
    /\ UNCHANGED <<disk, terms_by_domain_lang, domains_languages, pc, req, tc,
                   calls, nAdds>>

NextPost ==
    /\ last = NoCall
    /\ \E text \in PostTexts, replacements \in PostMappings :
          PostprocessCall(text, replacements)

SpecPost == InitPost /\ [][NextPost]_vars

(***************************************************************************)
(* C11.  postprocess and the order of the mapping                          *)
(***************************************************************************)
\* a postprocess_text call has returned
PostDone == last.kind = "postprocess"

\* the same mapping with its items in each order
Orders(repl) ==
    {[i \in DOMAIN repl |-> repl[p[i]]] : p \in Permutations(DOMAIN repl)}

\* its placeholders are the '<id>' tokens of distinct ids
DistinctIds(repl) ==
    /\ \A i \in DOMAIN repl : repl[i].placeholder = Placeholder(repl[i].term.id)
    /\ \A i, j \in DOMAIN repl : i # j => repl[i].term.id # repl[j].term.id

\* C11: for a mapping whose placeholders are the '<id>' tokens of distinct
\* ids, postprocess_text gives the same final text whatever the order in
\* which the placeholders are replaced, for every translated text and every
\* choice of the translation strings.
C11_OrderIndependent ==
    (PostDone /\ DistinctIds(last.replacements)) =>
        \A other \in Orders(last.replacements) :
            PostprocessText(last.text, other) = last.result

=============================================================================
